---------------------------- MODULE Spec2Model ----------------------------
(***************************************************************************)
(* Round-robin match progress tracker (src/src/App.tsx).                   *)
(*                                                                         *)
(* Five specifications share this module:                                  *)
(*   SpecGen   - generateMatches run as its two nested loops, one push or  *)
(*               loop-header step at a time, for n in -2..MaxGenN;         *)
(*   SpecClamp - the participant-count arithmetic of handlePairCountChange *)
(*               and handleStepperChange applied to one request;           *)
(*   SpecProgress - completedCount, totalMatches and progress of one       *)
(*               render;                                                   *)
(*   SpecLoad  - one call of loadLeagueState, statement by statement;      *)
(*   Spec      - the two-league App component: local state, the render     *)
(*               snapshot its handlers close over, effects, and the        *)
(*               asynchronous remote reads, writes and notifications.      *)
(***************************************************************************)
EXTENDS Integers, Sequences, FiniteSets, TLC

VARIABLES
    \* ---- SpecGen: one run of generateMatches
    gpc,          \* "idle" | "loop" | "done"
    gn,           \* the argument pairCount
    gi, gj,       \* the loop variables i and j
    gmatches,     \* the array `matches` being built
    \* ---- SpecClamp: one participant-count request
    cpc,          \* "idle" | "ready" | "done"
    ccount,       \* pairCount before the request
    creq,         \* the request: [kind, value] or [kind, delta]
    cres,         \* pairCount after the request
    \* ---- SpecProgress: the derived counters of one render
    ppc,          \* "idle" | "ready" | "done"
    pleague,      \* currentLeague of that render
    pprogress,    \* the value of `progress`
    \* ---- SpecLoad: one call of loadLeagueState
    lpc,          \* "idle" | "getItem" | "legacy" | "parse" | "check" | "catch"
                  \* | "done" | "uncaught"
    lleague,      \* the argument leagueId
    lstored,      \* what localStorage holds under the league's key
    llegacy,      \* what localStorage holds under the legacy key
    lresult,      \* the returned LeagueState
    \* ---- Spec: the App component
    mounted,      \* FALSE between construction and the first pass of effects
    activeLeague, \* useState<LeagueId>
    leagues,      \* useState<Record<LeagueId, LeagueState>>, all updaters applied
    rendered,     \* the value of `leagues` captured by the last render
    fetches,      \* in-flight loadFromSupabase calls: [league, cancelled]
    requests,     \* in-flight remote upserts (saveCompleted, resetLeagueInSupabase)
    events,       \* how many user and notification events have been handled
    last          \* the operation that produced this state, with its inputs

genVars   == <<gpc, gn, gi, gj, gmatches>>
clampVars == <<cpc, ccount, creq, cres>>
progVars  == <<ppc, pleague, pprogress>>
loadVars  == <<lpc, lleague, lstored, llegacy, lresult>>
appVars   == <<mounted, activeLeague, leagues, rendered, fetches, requests, events, last>>
vars      == <<genVars, clampVars, progVars, loadVars, appVars>>

-----------------------------------------------------------------------------
(* Bounds *)

\* largest argument of the stepwise generateMatches run
MaxGenN == 11
\* largest participant count a request may carry in Spec
MaxPairs == 4
\* most rows one bulk fetch returns, and most entries of a persisted map
MaxRows == 1
\* most remote upserts in flight at once
MaxInFlight == 1
\* most user and notification events of one behaviour of Spec
MaxEvents == 2
\* remote rows and persisted maps carry the match keys of this many participants
MaxRemotePairs == 3
\* most items (league A, league B, legacy) that local storage holds at start-up
MaxStoredItems == 1
\* largest requested count of SpecClamp
MaxRequest == 103
\* largest participant count of SpecProgress
MaxProgN == 16

-----------------------------------------------------------------------------
(* Helpers for JavaScript values *)

Range(s) == {s[k] : k \in 1..Len(s)}

Max(a, b) == IF a >= b THEN a ELSE b

Digit == <<"0", "1", "2", "3", "4", "5", "6", "7", "8", "9">>

\* `${n}` for a non-negative integer n: its decimal digits
RECURSIVE NumberToString(_)
NumberToString(n) ==
    IF n < 10 THEN Digit[n + 1]
    ELSE NumberToString(n \div 10) \o Digit[(n % 10) + 1]

\* `${i}-${j}`
MatchId(i, j) == NumberToString(i) \o "-" \o NumberToString(j)

\* a slip in the key: the larger participant first
MatchKeyReversed(i, j) == [id |-> MatchId(j, i), pairA |-> i, pairB |-> j]

\* a slip in the record: the two participants change places
MatchSwapped(i, j) == [id |-> MatchId(i, j), pairA |-> j, pairB |-> i]

\* { id: `${i}-${j}`, pairA: i, pairB: j }
Match(i, j) == [id |-> MatchId(i, j), pairA |-> i, pairB |-> j]

-----------------------------------------------------------------------------
(* generateMatches *)

\* a slip in the inner loop's start: `let j = i`
InnerStartFromI(i) == i

\* `let j = i + 1` of the inner loop
InnerStart(i) == i + 1

\* a slip in the inner loop's condition: one iteration too many
InnerContinuesOneMore(j, pairCount) == j <= pairCount + 1

\* `j <= pairCount`, the inner loop's condition
InnerContinues(j, pairCount) == j <= pairCount

\* `i <= pairCount`, the outer loop's condition
OuterContinues(i, pairCount) == i <= pairCount

\* the inner for loop of participant i, from loop variable j on
RECURSIVE InnerLoop(_, _, _)
InnerLoop(pairCount, i, j) ==
    IF ~InnerContinues(j, pairCount) THEN <<>>
    ELSE <<Match(i, j)>> \o InnerLoop(pairCount, i, j + 1)

\* the outer for loop, from loop variable i on
RECURSIVE OuterLoop(_, _)
OuterLoop(pairCount, i) ==
    IF ~OuterContinues(i, pairCount) THEN <<>>
    ELSE InnerLoop(pairCount, i, InnerStart(i)) \o OuterLoop(pairCount, i + 1)

generateMatches(pairCount) == OuterLoop(pairCount, 1)

\* new Set(generateMatches(pairCount).map((m) => m.id))
MatchIds(pairCount) == {m.id : m \in Range(generateMatches(pairCount))}

-----------------------------------------------------------------------------
(* SpecGen: generateMatches, one loop step at a time *)

GenIdle ==
    /\ gpc = "idle" /\ gn = 0 /\ gi = 0 /\ gj = 0 /\ gmatches = <<>>

GenInit ==
    /\ gpc = "loop"
    /\ gn \in (-2)..MaxGenN
    /\ gi = 1
    /\ gj = InnerStart(1)
    /\ gmatches = <<>>

\* matches.push({ id, pairA: i, pairB: j }); j += 1
GenPush ==
    /\ gpc = "loop"
    /\ OuterContinues(gi, gn)
    /\ InnerContinues(gj, gn)
    /\ gmatches' = Append(gmatches, Match(gi, gj))
    /\ gj' = gj + 1
    /\ UNCHANGED <<gpc, gn, gi>>

\* the inner loop ends: i += 1 and the inner loop starts again
GenOuterNext ==
    /\ gpc = "loop"
    /\ OuterContinues(gi, gn)
    /\ ~InnerContinues(gj, gn)
    /\ gi' = gi + 1
    /\ gj' = InnerStart(gi + 1)
    /\ UNCHANGED <<gpc, gn, gmatches>>

\* the outer loop ends: return matches
GenReturn ==
    /\ gpc = "loop"
    /\ ~OuterContinues(gi, gn)
    /\ gpc' = "done"
    /\ UNCHANGED <<gn, gi, gj, gmatches>>

-----------------------------------------------------------------------------
(* Participant-count arithmetic of the two change handlers *)

\* Number(value) of the input's text: NaN and the infinities are not finite,
\* a finite value is the rational num / den
NotFinite == [finite |-> FALSE, num |-> 0, den |-> 1]

FiniteNumber(num, den) == [finite |-> TRUE, num |-> num, den |-> den]

\* the parsed inputs, in whole and half units, whose floor lies in lo..hi
ParsedValues(lo, hi) ==
    {NotFinite}
    \cup {FiniteNumber(n, 1) : n \in lo..hi}
    \cup {FiniteNumber(n, 2) : n \in (2 * lo)..(2 * hi + 1)}

\* Math.floor(parsed)
MathFloor(parsed) == parsed.num \div parsed.den

\* const bounded = Math.max(2, Math.floor(parsed))
BoundedPairCount(parsed) == Max(2, MathFloor(parsed))

\* the pairCount handlePairCountChange leaves: unchanged after the early return
PairCountAfterChange(pairCount, parsed) ==
    IF ~parsed.finite THEN pairCount ELSE BoundedPairCount(parsed)

\* Math.max(2, prev[activeLeague].pairCount + delta)
PairCountAfterStep(pairCount, delta) == Max(2, pairCount + delta)

\* the two stepper buttons call handleStepperChange(1) and handleStepperChange(-1)
StepperDeltas == {1, -1}

-----------------------------------------------------------------------------
(* SpecClamp: one participant-count request *)

ClampIdle ==
    /\ cpc = "idle" /\ ccount = 0 /\ cres = 0
    /\ creq = [kind |-> "none", parsed |-> NotFinite, delta |-> 0]

ClampRequests ==
    {[kind |-> "value", parsed |-> p, delta |-> 0] : p \in ParsedValues(-2, MaxRequest)}
    \cup {[kind |-> "delta", parsed |-> NotFinite, delta |-> d] : d \in StepperDeltas}

ClampInit ==
    /\ cpc = "ready"
    /\ ccount \in 2..MaxRequest
    /\ creq \in ClampRequests
    /\ cres = ccount

ClampAbsolute ==
    /\ cpc = "ready"
    /\ creq.kind = "value"
    /\ cres' = PairCountAfterChange(ccount, creq.parsed)
    /\ cpc' = "done"
    /\ UNCHANGED <<ccount, creq>>

ClampStepper ==
    /\ cpc = "ready"
    /\ creq.kind = "delta"
    /\ cres' = PairCountAfterStep(ccount, creq.delta)
    /\ cpc' = "done"
    /\ UNCHANGED <<ccount, creq>>

-----------------------------------------------------------------------------
(* League state and completion maps *)

LeagueIds == {"A", "B"}

\* {} as Record<string, boolean>
EmptyMap == [k \in {} |-> TRUE]

defaultLeagueState == [pairCount |-> 4, completedMap |-> EmptyMap]

IdleLeagues == [l \in LeagueIds |-> defaultLeagueState]

\* the truthiness of map[id]: undefined when id is absent
Lookup(map, id) == IF id \in DOMAIN map THEN map[id] ELSE FALSE

\* { ...map, [id]: value }
Put(map, id, value) == [k \in DOMAIN map \cup {id} |-> IF k = id THEN value ELSE map[k]]

\* Object.fromEntries(Object.entries(map).filter(([id]) => keys.has(id)))
FilterEntries(map, keys) == [k \in DOMAIN map \cap keys |-> map[k]]

\* Object.keys(completedMap).filter((id) => completedMap[id])
completedIds(league) == {id \in DOMAIN league.completedMap : league.completedMap[id]}

completedCount(league) == Cardinality(completedIds(league))

canEditPairCount(league) == completedCount(league) = 0

-----------------------------------------------------------------------------------------------------------------------------------------------------
(* Number arithmetic of `progress`: IEEE 754 binary64, round to nearest even. *)
(* A Number is [top, l1, l2, l3, l4, exp] with the value                      *)
(*     (top * 2^52 + l1 * 2^36 + l2 * 2^20 + l3 * 2^4 + l4) * 2^(exp - 52):   *)
(* three limbs of 16 bits and one of 4 below the leading part, so that every  *)
(* intermediate integer stays below 2^31. A stored Number has 53 significant  *)
(* bits; the counts divided here are below CountLimit.                        *)

\* 2^16, the size of the limbs l1, l2, l3
Limb == 65536

\* 2^4, the size of the limb l4
LowLimb == 16

\* the quotient is modelled for counts below 2^13
CountLimit == 8192

NumberZero == [top |-> 0, l1 |-> 0, l2 |-> 0, l3 |-> 0, l4 |-> 0, exp |-> 0]

\* x * 2^e for e > 0, x otherwise
Scale(x, e) == IF e > 0 THEN x * 2^e ELSE x

\* the e with 2^e <= c / t < 2^(e + 1)
Exponent(c, t) ==
    CHOOSE e \in (-13)..13 :
        /\ Scale(t, e) <= Scale(c, 0 - e)
        /\ Scale(c, 0 - e) < 2 * Scale(t, e)

\* carries moved up from limb to limb
Carry(x) ==
    LET s3 == x.l3 + x.l4 \div LowLimb
        s2 == x.l2 + s3 \div Limb
        s1 == x.l1 + s2 \div Limb
    IN [top |-> x.top + s1 \div Limb, l1 |-> s1 % Limb, l2 |-> s2 % Limb,
        l3 |-> s3 % Limb, l4 |-> x.l4 % LowLimb, exp |-> x.exp]

\* c / t, t > 0: long division to 53 bits, then the guard bit and the rest
Divide(c, t) ==
    IF c = 0 THEN NumberZero
    ELSE LET e     == Exponent(c, t)
             c0    == Scale(c, 0 - e)
             t0    == Scale(t, e)
             r0    == c0 - t0
             d1    == (r0 * Limb) \div t0
             r1    == (r0 * Limb) % t0
             d2    == (r1 * Limb) \div t0
             r2    == (r1 * Limb) % t0
             d3    == (r2 * Limb) \div t0
             r3    == (r2 * Limb) % t0
             d4    == (r3 * LowLimb) \div t0
             r4    == (r3 * LowLimb) % t0
             guard == 2 * r4 >= t0
             rest  == 2 * r4 - (IF guard THEN t0 ELSE 0)
             up    == guard /\ (rest # 0 \/ d4 % 2 = 1)
             q     == Carry([top |-> 1, l1 |-> d1, l2 |-> d2, l3 |-> d3,
                             l4 |-> d4 + (IF up THEN 1 ELSE 0), exp |-> e])
         IN IF q.top = 2 THEN [NumberZero EXCEPT !.top = 1, !.exp = e + 1] ELSE q

\* x * k for an integer k in 64..127: the exact product has 6 or 7 bits more
\* than a Number holds and is rounded to 53 bits
Times(x, k) ==
    LET p    == Carry([top |-> x.top * k, l1 |-> x.l1 * k, l2 |-> x.l2 * k,
                       l3 |-> x.l3 * k, l4 |-> x.l4 * k, exp |-> x.exp])
        unit == IF p.top >= 128 THEN 8 ELSE 4
        low  == (p.l3 % unit) * LowLimb + p.l4
        half == (unit * LowLimb) \div 2
        up   == low > half \/ (low = half /\ (p.l3 \div unit) % 2 = 1)
    IN Carry([p EXCEPT !.l4 = 0,
                       !.l3 = p.l3 - (p.l3 % unit) + (IF up THEN unit ELSE 0)])

\* Math.round(x): the integer nearest to x, a tie goes up
MathRound(x) ==
    LET twice == IF x.exp + 1 >= 0
                 THEN x.top * 2^(x.exp + 1) + x.l1 \div 2^(15 - x.exp)
                 ELSE x.top \div 2^(0 - x.exp - 1)
    IN (twice + 1) \div 2

totalMatches(league) == Len(generateMatches(league.pairCount))

\* totalMatches === 0 ? 0 : Math.round((completedCount / totalMatches) * 100)
ProgressOf(count, total) ==
    IF total = 0 THEN 0 ELSE MathRound(Times(Divide(count, total), 100))

progress(league) == ProgressOf(completedCount(league), totalMatches(league))

-----------------------------------------------------------------------------
(* SpecProgress: the derived counters of one render *)

ProgIdle ==
    /\ ppc = "idle" /\ pleague = defaultLeagueState /\ pprogress = 0

\* the league of n participants whose first c matches are complete and whose
\* next match, if there is one, has an entry that says false
PrefixLeague(n, c) ==
    LET ids == generateMatches(n)
    IN [pairCount |-> n,
        completedMap |-> [id \in {ids[k].id : k \in 1..(IF c < Len(ids) THEN c + 1 ELSE c)}
                             |-> id \in {ids[k].id : k \in 1..c}]]

\* the leagues a render may show: every completion map over the matches of
\* MaxPairs participants, and for each larger count one map per completedCount
ProgLeagues ==
    {[pairCount |-> MaxPairs, completedMap |-> m] :
        m \in UNION {[S -> BOOLEAN] : S \in SUBSET MatchIds(MaxPairs)}}
    \cup UNION {{PrefixLeague(n, c) : c \in 0..((n * (n - 1)) \div 2)} : n \in 0..MaxProgN}

ProgInit ==
    /\ ppc = "ready"
    /\ pleague \in ProgLeagues
    /\ pprogress = 0

\* totalMatches === 0 ? 0
ProgNoMatches ==
    /\ ppc = "ready"
    /\ totalMatches(pleague) = 0
    /\ pprogress' = 0
    /\ ppc' = "done"
    /\ UNCHANGED pleague

\* : Math.round((completedCount / totalMatches) * 100)
ProgRound ==
    /\ ppc = "ready"
    /\ totalMatches(pleague) # 0
    /\ pprogress' = progress(pleague)
    /\ ppc' = "done"
    /\ UNCHANGED pleague

\* the ids of the rendered fixture list
matches(league) == generateMatches(league.pairCount)

\* the ids of every checkbox a render within MaxPairs can show
AllMatchIds == MatchIds(MaxPairs)

\* match keys a remote row or a persisted map may carry
KeyUniverse == MatchIds(MaxRemotePairs)

\* completion maps of at most MaxRows entries
SmallMaps ==
    UNION {[S -> BOOLEAN] : S \in {T \in SUBSET KeyUniverse : Cardinality(T) <= MaxRows}}

-----------------------------------------------------------------------------
(* Local persistence: what localStorage holds when the component is built *)

\* getItem(...) then JSON.parse(...): no item, text that does not parse,
\* the value null, or an object whose fields may have any type
MissingEntry == [kind |-> "missing", hasPairCount |-> FALSE, pairCount |-> 0,
                 hasMap |-> FALSE, completedMap |-> EmptyMap]

CorruptEntry == [MissingEntry EXCEPT !.kind = "corrupt"]

NullEntry == [MissingEntry EXCEPT !.kind = "null"]

StoredLeagueEntries ==
    {MissingEntry, CorruptEntry, NullEntry,
     [MissingEntry EXCEPT !.kind = "object"]}
    \cup {[kind |-> "object", hasPairCount |-> TRUE, pairCount |-> n,
           hasMap |-> TRUE, completedMap |-> m] : n \in 1..2, m \in SmallMaps}
    \cup {[kind |-> "object", hasPairCount |-> TRUE, pairCount |-> n,
           hasMap |-> FALSE, completedMap |-> EmptyMap] : n \in 1..2}

\* the legacy entry { pairCount, completedIds }: completedIds may be missing
\* or no array, and an array may hold elements that are not strings
LegacyElements ==
    {[isString |-> TRUE, text |-> k] : k \in KeyUniverse}
    \cup {[isString |-> FALSE, text |-> ""]}

MissingLegacy == [kind |-> "missing", hasPairCount |-> FALSE, pairCount |-> 0,
                  isArray |-> FALSE, completedIds |-> <<>>]

StoredLegacyEntries ==
    {MissingLegacy, [MissingLegacy EXCEPT !.kind = "corrupt"],
     [MissingLegacy EXCEPT !.kind = "object"]}
    \cup {[kind |-> "object", hasPairCount |-> TRUE, pairCount |-> MaxRemotePairs,
           isArray |-> TRUE, completedIds |-> ids] :
              ids \in UNION {[1..n -> LegacyElements] : n \in 0..MaxRows}}
    \cup {[kind |-> "object", hasPairCount |-> TRUE, pairCount |-> MaxRemotePairs,
           isArray |-> FALSE, completedIds |-> <<>>]}

\* window.localStorage.getItem(ACTIVE_LEAGUE_KEY)
StoredActiveLeagues == {"A", "B", ""}

\* parsed.completedIds.filter((id) => typeof id === 'string')
RECURSIVE FilterStrings(_)
FilterStrings(ids) ==
    IF ids = <<>> THEN <<>>
    ELSE IF Head(ids).isString THEN <<Head(ids).text>> \o FilterStrings(Tail(ids))
    ELSE FilterStrings(Tail(ids))

\* null, or { pairCount, completedIds }
loadLegacyState(legacy) ==
    IF legacy.kind \in {"missing", "corrupt", "null"} \/ ~legacy.hasPairCount
    THEN [found |-> FALSE, pairCount |-> 0, completedIds |-> <<>>]
    ELSE [found |-> TRUE, pairCount |-> legacy.pairCount,
          completedIds |-> IF legacy.isArray THEN FilterStrings(legacy.completedIds)
                           ELSE <<>>]

\* a slip in the migration: the legacy entry is read for either league
ReadsLegacyAlways(leagueId) == TRUE

\* if (leagueId === 'A'): the one league the legacy entry is migrated to
ReadsLegacy(leagueId) == leagueId = "A"

loadLeagueState(leagueId, stored, legacy) ==
    IF stored.kind = "missing" THEN
        IF ReadsLegacy(leagueId) /\ loadLegacyState(legacy).found
        THEN [pairCount |-> loadLegacyState(legacy).pairCount,
              completedMap |-> [id \in Range(loadLegacyState(legacy).completedIds) |-> TRUE]]
        ELSE defaultLeagueState
    ELSE IF stored.kind = "corrupt" THEN defaultLeagueState
    ELSE IF stored.kind = "null" \/ ~stored.hasPairCount THEN defaultLeagueState
    ELSE [pairCount |-> stored.pairCount,
          completedMap |-> IF stored.hasMap THEN stored.completedMap ELSE EmptyMap]

-----------------------------------------------------------------------------
(* SpecLoad: one call of loadLeagueState, statement by statement *)

LoadIdle ==
    /\ lpc = "idle" /\ lleague = "A" /\ lstored = MissingEntry
    /\ llegacy = MissingLegacy /\ lresult = defaultLeagueState

LoadInit ==
    /\ lpc = "getItem"
    /\ lleague \in LeagueIds
    /\ lstored \in StoredLeagueEntries
    /\ llegacy \in StoredLegacyEntries
    /\ lresult = defaultLeagueState

\* a slip in the error handling: the statement stands outside the try block
ThrowEscapes(statement) == "uncaught"

\* where control goes when a statement of the try block throws
OnThrow(statement) == "catch"

\* const stored = getItem(leagueKey(leagueId)); if (!stored) { ... }
LoadGetItem ==
    /\ lpc = "getItem"
    /\ IF lstored.kind # "missing" THEN lpc' = "parse" /\ UNCHANGED lresult
       ELSE IF ReadsLegacy(lleague) THEN lpc' = "legacy" /\ UNCHANGED lresult
       ELSE lpc' = "done" /\ lresult' = defaultLeagueState
    /\ UNCHANGED <<lleague, lstored, llegacy>>

\* const legacy = loadLegacyState(); if (legacy) { return {...} } return default
LoadLegacy ==
    /\ lpc = "legacy"
    /\ lresult' =
          IF loadLegacyState(llegacy).found
          THEN [pairCount |-> loadLegacyState(llegacy).pairCount,
                completedMap |-> [id \in Range(loadLegacyState(llegacy).completedIds) |-> TRUE]]
          ELSE defaultLeagueState
    /\ lpc' = "done"
    /\ UNCHANGED <<lleague, lstored, llegacy>>

\* const parsed = JSON.parse(stored): throws on text that is no JSON
LoadParse ==
    /\ lpc = "parse"
    /\ lpc' = IF lstored.kind = "corrupt" THEN OnThrow("JSON.parse") ELSE "check"
    /\ UNCHANGED <<lleague, lstored, llegacy, lresult>>

\* if (!parsed || typeof parsed.pairCount !== 'number') return default; return {...}
LoadCheck ==
    /\ lpc = "check"
    /\ lresult' =
          IF lstored.kind = "null" \/ ~lstored.hasPairCount THEN defaultLeagueState
          ELSE [pairCount |-> lstored.pairCount,
                completedMap |-> IF lstored.hasMap THEN lstored.completedMap ELSE EmptyMap]
    /\ lpc' = "done"
    /\ UNCHANGED <<lleague, lstored, llegacy>>

\* catch { return defaultLeagueState }
LoadCatch ==
    /\ lpc = "catch"
    /\ lresult' = defaultLeagueState
    /\ lpc' = "done"
    /\ UNCHANGED <<lleague, lstored, llegacy>>

\* stored === 'B' ? 'B' : 'A'
InitialActiveLeague(stored) == IF stored = "B" THEN "B" ELSE "A"

-----------------------------------------------------------------------------
(* Spec: the App component *)

AppIdle ==
    /\ mounted = FALSE /\ activeLeague = "A" /\ leagues = IdleLeagues
    /\ rendered = IdleLeagues /\ fetches = {} /\ requests = {} /\ events = 0
    /\ last = [op |-> "idle"]

\* the useState initializers
AppInit ==
    \E stored \in [LeagueIds -> StoredLeagueEntries],
       legacy \in StoredLegacyEntries, storedActive \in StoredActiveLeagues :
        /\ Cardinality({l \in LeagueIds : stored[l].kind # "missing"})
             + (IF legacy.kind # "missing" THEN 1 ELSE 0) <= MaxStoredItems
        /\ mounted = FALSE
        /\ activeLeague = InitialActiveLeague(storedActive)
        /\ leagues = [l \in LeagueIds |-> loadLeagueState(l, stored[l], legacy)]
        /\ rendered = leagues
        /\ fetches = {}
        /\ requests = {}
        /\ events = 0
        /\ last = [op |-> "construct"]

\* a slip in the pruning effect: the filter tests the value, not the key
PruneByValue(ls, l) ==
    [ls EXCEPT ![l].completedMap =
        [k \in {x \in DOMAIN @ : @[x]} |-> @[k]]]

\* the pruning effect: drop the entries of league l that are no match of its count
PruneEffect(ls, l) ==
    [ls EXCEPT ![l].completedMap = FilterEntries(@, {m.id : m \in Range(matches(ls[l]))})]

\* a slip in the cleanup: the flag is never set
CancelNothing(fs) == fs

\* the cleanup of the fetch effect: cancelled = true
CancelFetches(fs) == {[f EXCEPT !.cancelled = TRUE] : f \in fs}

\* the fetch effect: loadFromSupabase() for league l
StartFetch(fs, l) == fs \cup {[league |-> l, cancelled |-> FALSE]}

\* the keys league l lost between two values of `leagues`
Pruned(before, after, l) == DOMAIN before[l].completedMap \ DOMAIN after[l].completedMap

\* the first pass of the effects, after the first render
Mount ==
    /\ ~mounted
    /\ mounted' = TRUE
    /\ fetches' = StartFetch(fetches, activeLeague)
    /\ leagues' = PruneEffect(leagues, activeLeague)
    /\ rendered' = leagues'
    /\ last' = [op |-> "mount", pruned |-> Pruned(leagues, leagues', activeLeague)]
    /\ UNCHANGED <<activeLeague, requests, events>>

\* a render that picks up the updates queued by asynchronous completions
Render ==
    /\ mounted
    /\ rendered # leagues
    /\ rendered' = leagues
    /\ UNCHANGED <<mounted, activeLeague, leagues, fetches, requests, events, last>>

\* supabase.from('matches').upsert(...), as issued
saveCompleted(league, matchKey, completed) ==
    [fn |-> "saveCompleted", league |-> league,
     rows |-> Put(EmptyMap, matchKey, completed)]

\* a slip in the reset upsert: the rows of one participant fewer
ResetOneFewer(league, pairCount) ==
    [fn |-> "resetLeagueInSupabase", league |-> league,
     rows |-> [id \in {m.id : m \in Range(generateMatches(pairCount - 1))} |-> FALSE]]

resetLeagueInSupabase(league, pairCount) ==
    [fn |-> "resetLeagueInSupabase", league |-> league,
     rows |-> [id \in {m.id : m \in Range(generateMatches(pairCount))} |-> FALSE]]

\* a slip in the optimistic update: the entry is set instead of flipped
ToggleSetsTrue(prev, l, id) ==
    [prev EXCEPT ![l].completedMap = Put(@, id, TRUE)]

\* the optimistic update of handleToggle: flip prev[activeLeague].completedMap[id]
ToggleUpdate(prev, l, id) ==
    [prev EXCEPT ![l].completedMap = Put(@, id, ~Lookup(@, id))]

\* a checkbox of the rendered list is clicked
handleToggle(id) ==
    /\ mounted
    /\ events < MaxEvents
    /\ Cardinality(requests) < MaxInFlight
    /\ id \in {m.id : m \in Range(matches(rendered[activeLeague]))}
    /\ LET next == ~Lookup(rendered[activeLeague].completedMap, id)
       IN /\ leagues' = ToggleUpdate(leagues, activeLeague, id)
          /\ requests' = requests \cup {saveCompleted(activeLeague, id, next)}
          /\ last' = [op |-> "toggle", id |-> id, sent |-> next]
    /\ rendered' = leagues'
    /\ events' = events + 1
    /\ UNCHANGED <<mounted, activeLeague, fetches>>

\* a slip in the updater: the count is written to every league
PairCountUpdateAll(prev, l, pairCount) ==
    [x \in LeagueIds |-> [prev[x] EXCEPT !.pairCount = pairCount]]

\* the updater of handlePairCountChange and of handleStepperChange, then the
\* pruning effect, which runs when the fixture list changed
PairCountUpdate(prev, l, pairCount) ==
    LET next == [prev EXCEPT ![l].pairCount = pairCount]
    IN IF pairCount # prev[l].pairCount THEN PruneEffect(next, l) ELSE next

\* the number input, enabled only while canEditPairCount, changes to `parsed`
handlePairCountChange(parsed) ==
    /\ mounted
    /\ events < MaxEvents
    /\ canEditPairCount(rendered[activeLeague])
    /\ IF ~parsed.finite
       THEN UNCHANGED <<leagues, rendered>>
       ELSE /\ leagues' = PairCountUpdate(leagues, activeLeague, BoundedPairCount(parsed))
            /\ rendered' = leagues'
    /\ last' = [op |-> "pairCount", finite |-> parsed.finite,
                pruned |-> Pruned(leagues, leagues', activeLeague)]
    /\ events' = events + 1
    /\ UNCHANGED <<mounted, activeLeague, fetches, requests>>

\* a stepper button, enabled only while canEditPairCount, is clicked
handleStepperChange(delta) ==
    /\ mounted
    /\ events < MaxEvents
    /\ canEditPairCount(rendered[activeLeague])
    /\ leagues[activeLeague].pairCount + delta <= MaxPairs
    /\ leagues' = PairCountUpdate(leagues, activeLeague,
                      PairCountAfterStep(leagues[activeLeague].pairCount, delta))
    /\ rendered' = leagues'
    /\ last' = [op |-> "stepper", delta |-> delta,
                pruned |-> Pruned(leagues, leagues', activeLeague)]
    /\ events' = events + 1
    /\ UNCHANGED <<mounted, activeLeague, fetches, requests>>

\* the reset button, enabled only while a match is complete, is clicked
handleResetLeague ==
    /\ mounted
    /\ events < MaxEvents
    /\ Cardinality(requests) < MaxInFlight
    /\ completedCount(rendered[activeLeague]) # 0
    /\ leagues' = [leagues EXCEPT ![activeLeague].completedMap = EmptyMap]
    /\ requests' = requests \cup
          {resetLeagueInSupabase(activeLeague, rendered[activeLeague].pairCount)}
    /\ rendered' = leagues'
    /\ last' = [op |-> "reset"]
    /\ events' = events + 1
    /\ UNCHANGED <<mounted, activeLeague, fetches>>

\* a league tab is clicked; the effects keyed on activeLeague run again
handleLeagueChange(leagueId) ==
    /\ mounted
    /\ events < MaxEvents
    /\ IF leagueId = activeLeague
       THEN UNCHANGED <<activeLeague, leagues, rendered, fetches>>
       ELSE /\ activeLeague' = leagueId
            /\ fetches' = StartFetch(CancelFetches(fetches), leagueId)
            /\ leagues' = PruneEffect(leagues, leagueId)
            /\ rendered' = leagues'
    /\ last' = [op |-> "switch", from |-> activeLeague,
                pruned |-> Pruned(leagues, leagues', leagueId)]
    /\ events' = events + 1
    /\ UNCHANGED <<mounted, requests>>

\* rows of the remote table `matches` as they reach this client; a change
\* notification may carry no match_key at all
RemoteRows == [match_key : KeyUniverse, completed : BOOLEAN]

NotifiedRows == RemoteRows \cup {[match_key |-> "", completed |-> FALSE]}

\* what one bulk select returns: at most MaxRows rows
FetchedData == UNION {[1..n -> RemoteRows] : n \in 0..MaxRows}

\* the loop of loadFromSupabase over the fetched rows
RECURSIVE LoadRows(_, _, _)
LoadRows(data, allowed, completedMap) ==
    IF data = <<>> THEN completedMap
    ELSE IF Head(data).match_key \notin allowed
         THEN LoadRows(Tail(data), allowed, completedMap)
         ELSE LoadRows(Tail(data), allowed,
                       Put(completedMap, Head(data).match_key, Head(data).completed))

\* a slip in the updater: the rows are merged into the map that was there
LoadMerges(prev, l, data) ==
    [prev EXCEPT ![l].completedMap =
        LoadRows(data, {m.id : m \in Range(generateMatches(prev[l].pairCount))}, @)]

\* the updater of loadFromSupabase, for the league the effect was started for
LoadUpdate(prev, l, data) ==
    [prev EXCEPT ![l].completedMap =
        LoadRows(data, {m.id : m \in Range(generateMatches(prev[l].pairCount))}, EmptyMap)]

\* what a finished select does to the state: nothing once the effect was
\* cleaned up, nothing on an error
loadFromSupabase(prev, f, error, data) ==
    IF f.cancelled THEN prev
    ELSE IF error THEN prev
    ELSE LoadUpdate(prev, f.league, data)

\* the select of an in-flight loadFromSupabase completes
FetchComplete(f, error, data) ==
    /\ f \in fetches
    /\ fetches' = fetches \ {f}
    /\ leagues' = loadFromSupabase(leagues, f, error, data)
    /\ last' = [op |-> "fetchDone", fetch |-> f, error |-> error,
                keys |-> {data[k].match_key : k \in 1..Len(data)}]
    /\ UNCHANGED <<mounted, activeLeague, rendered, requests, events>>

\* a slip in the realtime handler: the row is merged whatever its key
RealtimeMergeAnyKey(prev, l, row) ==
    IF row.match_key = "" THEN prev
    ELSE [prev EXCEPT ![l].completedMap = Put(@, row.match_key, row.completed)]

\* the updater of the realtime handler
RealtimeUpdate(prev, l, row) ==
    IF row.match_key = "" THEN prev
    ELSE IF row.match_key \notin {m.id : m \in Range(generateMatches(prev[l].pairCount))}
         THEN prev
         ELSE [prev EXCEPT ![l].completedMap = Put(@, row.match_key, row.completed)]

\* a change notification for the subscribed (active) league is delivered
RealtimeEvent(row) ==
    /\ mounted
    /\ events < MaxEvents
    /\ leagues' = RealtimeUpdate(leagues, activeLeague, row)
    /\ last' = [op |-> "realtime", match_key |-> row.match_key]
    /\ events' = events + 1
    /\ UNCHANGED <<mounted, activeLeague, rendered, fetches, requests>>

\* an upsert completes: an error is logged, nothing else happens
UpsertComplete(r, error) ==
    /\ r \in requests
    /\ requests' = requests \ {r}
    /\ last' = [op |-> "upsertDone", fn |-> r.fn, error |-> error]
    /\ UNCHANGED <<mounted, activeLeague, leagues, rendered, fetches, events>>

-----------------------------------------------------------------------------
(* The three specifications *)

Init == AppInit /\ GenIdle /\ ClampIdle /\ ProgIdle /\ LoadIdle

Next ==
    /\ UNCHANGED <<genVars, clampVars, progVars, loadVars>>
    /\ \/ Mount
       \/ Render
       \/ \E id \in AllMatchIds : handleToggle(id)
       \/ \E parsed \in ParsedValues(0, MaxPairs) : handlePairCountChange(parsed)
       \/ \E delta \in StepperDeltas : handleStepperChange(delta)
       \/ handleResetLeague
       \/ \E leagueId \in LeagueIds : handleLeagueChange(leagueId)
       \/ \E f \in fetches, data \in FetchedData : FetchComplete(f, FALSE, data)
       \/ \E f \in fetches : FetchComplete(f, TRUE, <<>>)
       \/ \E row \in NotifiedRows : RealtimeEvent(row)
       \/ \E r \in requests, error \in BOOLEAN : UpsertComplete(r, error)

Spec == Init /\ [][Next]_vars

InitGen == GenInit /\ ClampIdle /\ ProgIdle /\ LoadIdle /\ AppIdle

NextGen ==
    /\ UNCHANGED <<clampVars, progVars, loadVars, appVars>>
    /\ (GenPush \/ GenOuterNext \/ GenReturn)

SpecGen == InitGen /\ [][NextGen]_vars

InitClamp == ClampInit /\ GenIdle /\ ProgIdle /\ LoadIdle /\ AppIdle

NextClamp ==
    /\ UNCHANGED <<genVars, progVars, loadVars, appVars>>
    /\ (ClampAbsolute \/ ClampStepper)

SpecClamp == InitClamp /\ [][NextClamp]_vars

InitProgress == ProgInit /\ GenIdle /\ ClampIdle /\ LoadIdle /\ AppIdle

NextProgress ==
    /\ UNCHANGED <<genVars, clampVars, loadVars, appVars>>
    /\ (ProgNoMatches \/ ProgRound)

SpecProgress == InitProgress /\ [][NextProgress]_vars

InitLoad == LoadInit /\ GenIdle /\ ClampIdle /\ ProgIdle /\ AppIdle

NextLoad ==
    /\ UNCHANGED <<genVars, clampVars, progVars, appVars>>
    /\ (LoadGetItem \/ LoadLegacy \/ LoadParse \/ LoadCheck \/ LoadCatch)

SpecLoad == InitLoad /\ [][NextLoad]_vars

-----------------------------------------------------------------------------
(* Properties of generateMatches, checked under SpecGen *)

\* the match keys of a round robin of n participants, written out directly
ValidKeys(n) ==
    {ToString(p[1]) \o "-" \o ToString(p[2]) : p \in {q \in (1..n) \X (1..n) : q[1] < q[2]}}

\* The recursive operator used by Spec computes what the stepwise loops build.
GenLoopAgrees == gpc = "done" => gmatches = generateMatches(gn)

\* C1: for every participant count n >= 2, generateMatches(n) returns exactly
\* n*(n-1)/2 matches and no two of them have the same id.
C1_CountAndUniqueIds ==
    (gpc = "done" /\ gn >= 2) =>
        /\ Len(gmatches) = (gn * (gn - 1)) \div 2
        /\ \A a, b \in 1..Len(gmatches) : a # b => gmatches[a].id # gmatches[b].id

C1_Witness == gpc = "done" /\ gn = MaxGenN /\ Len(gmatches) > MaxGenN

\* C9: every match emitted by generateMatches(n) has 1 <= pairA < pairB <= n,
\* and its id is the decimal pairA, a hyphen, the decimal pairB.
C9_OrderedPairKey ==
    \A k \in 1..Len(gmatches) :
        /\ 1 <= gmatches[k].pairA
        /\ gmatches[k].pairA < gmatches[k].pairB
        /\ gmatches[k].pairB <= gn
        /\ gmatches[k].id = ToString(gmatches[k].pairA) \o "-" \o ToString(gmatches[k].pairB)

C9_Witness ==
    /\ gpc = "done"
    /\ \E k \in 1..Len(gmatches) : gmatches[k].pairA >= 10 /\ gmatches[k].pairB = gn

\* C10: for every n < 2 (0 and 1 included), generateMatches(n) returns the
\* empty sequence.
C10_EmptyBelowTwo == (gpc = "done" /\ gn < 2) => gmatches = <<>>

C10_Witness == gpc = "done" /\ gn = 1 /\ gmatches = <<>>

\* (pairA, pairB) of match a comes before that of match b
LexLess(a, b) == a.pairA < b.pairA \/ (a.pairA = b.pairA /\ a.pairB < b.pairB)

\* the ids of the matches built so far, in the order of the array
GenIds == [k \in 1..Len(gmatches) |-> gmatches[k].id]

\* C11: generateMatches(n) emits its matches in strictly increasing
\* lexicographic order of (pairA, pairB); the sequence is a function of n
\* alone (a second evaluation returns the same sequence), and for n = 4 it
\* is 1-2, 1-3, 1-4, 2-3, 2-4, 3-4.
C11_LexicographicOrder ==
    /\ \A k \in 1..(Len(gmatches) - 1) : LexLess(gmatches[k], gmatches[k + 1])
    /\ gpc = "done" => gmatches = generateMatches(gn)
    /\ (gpc = "done" /\ gn = 4) => GenIds = <<"1-2", "1-3", "1-4", "2-3", "2-4", "3-4">>

C11_Witness ==
    /\ gpc = "done" /\ gn = 4 /\ Len(gmatches) = 6
    /\ gmatches[3].pairA = 1 /\ gmatches[4].pairA = 2

-----------------------------------------------------------------------------
(* Properties of the participant-count arithmetic, checked under SpecClamp *)

\* the count a request asks for
Requested ==
    IF creq.kind = "value" THEN MathFloor(creq.parsed) ELSE ccount + creq.delta

\* the request is one the handler acts on: a finite value, or a stepper click
Acted == cpc = "done" /\ (creq.kind = "value" => creq.parsed.finite)

\* the lower bound alone: a request below 2 leaves the count at 2
LowerClamp == (Acted /\ Requested < 2) => cres = 2

\* C8: a requested count below 2 is clamped to 2, and a requested count above
\* the configured maximum (100, section 3 of the specification) is clamped to
\* that maximum, for the absolute-value and for the delta operation.
C8_ClampedAtBothBounds ==
    Acted =>
        /\ (Requested < 2 => cres = 2)
        /\ (Requested > 100 => cres = 100)

-----------------------------------------------------------------------------
(* Properties of loadLeagueState, checked under SpecLoad *)

\* The operator used by Spec returns what the statements build.
LoadAgrees == lpc = "done" => lresult = loadLeagueState(lleague, lstored, llegacy)

\* the legacy entry is { pairCount: number, completedIds: string[] }
WellFormedLegacy ==
    /\ llegacy.kind = "object" /\ llegacy.hasPairCount /\ llegacy.isArray
    /\ \A k \in 1..Len(llegacy.completedIds) : llegacy.completedIds[k].isString

\* the state of the specification's default: four participants, nothing complete
DefaultState == [pairCount |-> 4, completedMap |-> [k \in {} |-> TRUE]]

\* C15: when league A has no per-league entry and a well-formed legacy entry
\* exists, loadLeagueState('A') returns the legacy pairCount and a map holding
\* exactly the legacy completedIds, each mapped to true; loadLeagueState('B')
\* never reads the legacy entry and returns the default.
C15_LegacyMigratesToAOnly ==
    lpc = "done" =>
        /\ (lleague = "A" /\ lstored.kind = "missing" /\ WellFormedLegacy) =>
              /\ lresult.pairCount = llegacy.pairCount
              /\ DOMAIN lresult.completedMap =
                    {llegacy.completedIds[k].text : k \in 1..Len(llegacy.completedIds)}
              /\ \A id \in DOMAIN lresult.completedMap : lresult.completedMap[id] = TRUE
        /\ (lleague = "B" /\ lstored.kind = "missing") => lresult = DefaultState
        /\ lleague = "B" =>
              \A other \in StoredLegacyEntries :
                  loadLeagueState("B", lstored, other) = lresult

C15_Witness ==
    /\ lpc = "done" /\ lleague = "A" /\ lstored.kind = "missing" /\ WellFormedLegacy
    /\ Len(llegacy.completedIds) > 0
    /\ lresult.pairCount = MaxRemotePairs
    /\ DOMAIN lresult.completedMap # {}

\* the persisted entry is missing, unparsable, or lacks a numeric pairCount
NoUsableEntry ==
    \/ lstored.kind \in {"missing", "corrupt", "null"}
    \/ ~lstored.hasPairCount

\* C16 as stated: loading a league whose persisted entry is missing,
\* unparsable, or lacks a numeric pairCount yields the default state
\* (pairCount = 4, empty completion map) and never an error.
C16_NoEntryGivesDefault ==
    /\ lpc # "uncaught"
    /\ (lpc = "done" /\ NoUsableEntry) => lresult = DefaultState

\* C16, amended: such a load never ends in an error, and it yields the default
\* state except when the entry is missing, the league is A and a legacy entry
\* with a numeric pairCount can be read: then it yields the migrated legacy
\* state.
C16_DefaultUnlessLegacy ==
    /\ lpc # "uncaught"
    /\ (lpc = "done" /\ NoUsableEntry) =>
          IF lleague = "A" /\ lstored.kind = "missing"
             /\ llegacy.kind = "object" /\ llegacy.hasPairCount
          THEN /\ lresult.pairCount = llegacy.pairCount
               /\ DOMAIN lresult.completedMap =
                     {llegacy.completedIds[k].text :
                        k \in {n \in 1..Len(llegacy.completedIds) :
                                 llegacy.completedIds[n].isString}}
          ELSE lresult = DefaultState

C16_Witness ==
    /\ lpc = "done" /\ lstored.kind = "corrupt" /\ lresult = DefaultState

-----------------------------------------------------------------------------
(* Properties of the derived counters, checked under SpecProgress *)

\* the keys of the shown league whose completion value is true
TrueKeys == {k \in DOMAIN pleague.completedMap : pleague.completedMap[k] = TRUE}

\* the number of matches of a round robin of the shown league's participants
FixtureSize == Cardinality(ValidKeys(pleague.pairCount))

\* round(100 * count / total) in exact arithmetic, a tie going up
ExactRound(count, total) == (200 * count + total) \div (2 * total)

\* the example of the claim alone: four participants, only 2-3 complete
ProgressExample ==
    (ppc = "done" /\ pleague.pairCount = 4 /\ TrueKeys = {"2-3"}) =>
        /\ completedCount(pleague) = 1
        /\ pprogress = 17

\* the exact rounding restricted to the counts the model of Spec reaches
ExactUpToMaxPairs ==
    (ppc = "done" /\ pleague.pairCount \in 2..MaxPairs) =>
        pprogress = ExactRound(Cardinality(TrueKeys), FixtureSize)

\* C14: progress is 0 when there are no matches and otherwise
\* round(100 * completedCount / totalMatches), completedCount being the
\* number of keys whose completion value is true; with n = 4 and only 2-3
\* complete, completedCount = 1 and progress = 17.
C14_ProgressIsRounded ==
    ppc = "done" =>
        /\ completedCount(pleague) = Cardinality(TrueKeys)
        /\ FixtureSize = 0 => pprogress = 0
        /\ FixtureSize # 0 => pprogress = ExactRound(Cardinality(TrueKeys), FixtureSize)
        /\ (pleague.pairCount = 4 /\ TrueKeys = {"2-3"}) => pprogress = 17

-----------------------------------------------------------------------------
(* Properties of the App component, checked under Spec *)

AnyPairCountChange ==
    \/ \E parsed \in ParsedValues(0, MaxPairs) : handlePairCountChange(parsed)
    \/ \E delta \in StepperDeltas : handleStepperChange(delta)

\* C2: in every reachable state and for every league, active or not, every
\* key of the league's completion map is the key of a match of the league's
\* current pairCount.
C2_OnlyCurrentKeys ==
    \A l \in LeagueIds : DOMAIN leagues[l].completedMap \subseteq ValidKeys(leagues[l].pairCount)

\* what the last render shows: the active league as that render saw it
Shown == rendered[activeLeague]

\* once the first pass of the effects has run, a render counts no stale entry
CountedAfterMount ==
    mounted => /\ completedIds(Shown) \subseteq ValidKeys(Shown.pairCount)
               /\ completedCount(Shown) <= totalMatches(Shown)
               /\ progress(Shown) <= 100

\* C12: in every presented state, an entry whose key is no match of the
\* current fixture set is not counted: completedCount counts only current
\* matches, so completedCount <= totalMatches and progress <= 100.
C12_StaleNotCounted ==
    /\ completedIds(Shown) \subseteq ValidKeys(Shown.pairCount)
    /\ completedCount(Shown) <= totalMatches(Shown)
    /\ progress(Shown) <= 100

\* C3: a participant-count change request made while the active league's
\* completion map holds a true entry is rejected: pairCount and the map stay.
C3_LockedRequestRejected ==
    [][(AnyPairCountChange /\ ~canEditPairCount(leagues[activeLeague]))
          => leagues'[activeLeague] = leagues[activeLeague]]_vars

AnyFetchComplete(f) ==
    \/ \E data \in FetchedData : FetchComplete(f, FALSE, data)
    \/ FetchComplete(f, TRUE, <<>>)

\* C4: a bulk fetch issued for league L that completes, with rows or with an
\* error, while the active league is no longer L changes no league's
\* pairCount or completion map.
C4_StaleFetchDropped ==
    [][\A f \in fetches :
          (f.league # activeLeague /\ f \notin fetches' /\ AnyFetchComplete(f))
          => leagues' = leagues]_vars

C4_Witness ==
    /\ last.op = "fetchDone"
    /\ last.fetch.league # activeLeague
    /\ ~last.error
    /\ last.keys \cap ValidKeys(leagues[last.fetch.league].pairCount) # {}

\* C5: a remote row whose match_key is no match of the active league's
\* current pairCount is never merged: after a bulk load or a notification
\* that carries it the active league's map has no entry for the key, and a
\* notification leaves the whole state as it was.
C5_ForeignRowNotMerged ==
    [][/\ (events' = events + 1 /\ last'.op = "realtime") =>
            \A row \in NotifiedRows :
                (/\ row.match_key = last'.match_key
                 /\ row.match_key \notin ValidKeys(leagues[activeLeague].pairCount)
                 /\ RealtimeEvent(row))
                => /\ leagues' = leagues
                   /\ activeLeague' = activeLeague
                   /\ rendered' = rendered
                   /\ row.match_key \notin DOMAIN leagues'[activeLeague].completedMap
       /\ (fetches' # fetches /\ last'.op = "fetchDone" /\ ~last'.error) =>
            \A f \in fetches \ fetches', data \in FetchedData :
                FetchComplete(f, FALSE, data) =>
                    \A k \in 1..Len(data) :
                        data[k].match_key \notin ValidKeys(leagues[activeLeague].pairCount)
                        => data[k].match_key \notin DOMAIN leagues'[activeLeague].completedMap
      ]_vars

C5_Witness ==
    /\ last.op = "realtime"
    /\ last.match_key # ""
    /\ last.match_key \notin ValidKeys(leagues[activeLeague].pairCount)

\* C6: when the participant count changes, the pruning step leaves the active
\* league's completion map as exactly its restriction to the new fixture set:
\* no entry of another key stays, every entry of a match key stays as it was.
C6_PruneIsRestriction ==
    [][(/\ leagues'[activeLeague].pairCount # leagues[activeLeague].pairCount
        /\ AnyPairCountChange)
       => leagues'[activeLeague].completedMap =
            [k \in DOMAIN leagues[activeLeague].completedMap
                     \cap ValidKeys(leagues'[activeLeague].pairCount)
                |-> leagues[activeLeague].completedMap[k]]]_vars

C6_Witness ==
    /\ last.op \in {"pairCount", "stepper"}
    /\ last.pruned # {}
    /\ DOMAIN leagues[activeLeague].completedMap # {}

\* C7: toggle(id) flips the active league's local value of id at once, while
\* its upsert is still in flight, and an upsert that fails changes no local
\* state: the flipped value is not rolled back.
C7_OptimisticNoRollback ==
    [][/\ (events' = events + 1 /\ last'.op = "toggle") =>
            \A id \in AllMatchIds :
                handleToggle(id) =>
                    /\ Lookup(leagues'[activeLeague].completedMap, id)
                         = ~Lookup(leagues[activeLeague].completedMap, id)
                    /\ rendered' = leagues'
                    /\ \E r \in requests' :
                         /\ r.fn = "saveCompleted"
                         /\ r.league = activeLeague
                         /\ id \in DOMAIN r.rows
       /\ \A r \in requests :
            (r \notin requests' /\ UpsertComplete(r, TRUE)) =>
                /\ leagues' = leagues
                /\ rendered' = rendered
                /\ activeLeague' = activeLeague
      ]_vars

C7_Witness ==
    /\ last.op = "upsertDone"
    /\ last.fn = "saveCompleted"
    /\ last.error
    /\ completedCount(leagues[activeLeague]) > 0
    /\ events = 1

\* C13: resetLeague empties the active league's local completion map at
\* once and issues one upsert that sets completed = false for every match
\* key of the active league's pairCount at that moment, and for no other key.
C13_ResetUpsertsCurrentKeys ==
    [][(events' = events + 1 /\ last'.op = "reset" /\ handleResetLeague) =>
          /\ leagues'[activeLeague].completedMap = EmptyMap
          /\ rendered' = leagues'
          /\ \E r \in requests' :
                /\ requests' = requests \cup {r}
                /\ r \notin requests
                /\ r.fn = "resetLeagueInSupabase"
                /\ r.league = activeLeague
                /\ DOMAIN r.rows = ValidKeys(leagues[activeLeague].pairCount)
                /\ \A k \in DOMAIN r.rows : r.rows[k] = FALSE
      ]_vars

C13_Witness ==
    /\ last.op = "reset"
    /\ leagues[activeLeague].completedMap = EmptyMap
    /\ \E r \in requests :
          /\ r.fn = "resetLeagueInSupabase"
          /\ Cardinality(DOMAIN r.rows) = 3

\* no step takes a league's pairCount from 2 or more to less than 2
FloorKeptByEveryStep ==
    [][\A l \in LeagueIds :
          leagues[l].pairCount >= 2 => leagues'[l].pairCount >= 2]_vars

\* C17: in every reachable state each league's pairCount is an integer >= 2,
\* whatever sequence of load-from-persistence, absolute count change, stepper
\* change, toggle, reset and league switch led to it.
C17_PairCountAtLeastTwo ==
    \A l \in LeagueIds : leagues[l].pairCount \in Nat /\ leagues[l].pairCount >= 2

\* the map the rows of one bulk select stand for, restricted to `keys`
\* (of two rows with the same key the later one counts)
RowsAsMap(data, keys) ==
    [k \in {data[n].match_key : n \in 1..Len(data)} \cap keys |->
        data[CHOOSE n \in 1..Len(data) :
                /\ data[n].match_key = k
                /\ \A later \in (n + 1)..Len(data) : data[later].match_key # k].completed]

\* C18: when a bulk fetch for the still-active league completes successfully,
\* the league's completion map is replaced, not merged: it becomes exactly the
\* fetched rows restricted to the current fixture set, each key with the row's
\* completed value, and a local entry absent from the rows is gone, an
\* optimistic toggle made while the fetch was in flight included.
C18_FetchReplacesMap ==
    [][(fetches' # fetches /\ last'.op = "fetchDone" /\ ~last'.error) =>
          \A f \in fetches \ fetches', data \in FetchedData :
              (~f.cancelled /\ FetchComplete(f, FALSE, data)) =>
                  /\ f.league = activeLeague
                  /\ leagues'[activeLeague].completedMap =
                        RowsAsMap(data, ValidKeys(leagues[activeLeague].pairCount))
                  /\ leagues'[activeLeague].pairCount = leagues[activeLeague].pairCount
      ]_vars

\* a toggle's entry, its upsert still in flight, has just been dropped by a
\* bulk load whose rows do not hold the key
C18_Witness ==
    /\ last.op = "fetchDone" /\ ~last.error /\ ~last.fetch.cancelled
    /\ \E r \in requests :
          /\ r.fn = "saveCompleted"
          /\ \E id \in DOMAIN r.rows :
                /\ id \in DOMAIN rendered[activeLeague].completedMap
                /\ id \notin DOMAIN leagues[activeLeague].completedMap
                /\ id \notin last.keys

\* the value a toggle step sends equals the local value it leaves
SentIsLocal ==
    \A r \in requests' \ requests :
        /\ r.fn = "saveCompleted"
        /\ last'.id \in DOMAIN r.rows
        /\ r.rows[last'.id] = Lookup(leagues'[activeLeague].completedMap, last'.id)

\* a toggle made on a render that is up to date sends the local value
FreshToggleAgrees ==
    [][(events' = events + 1 /\ last'.op = "toggle" /\ rendered = leagues)
          => SentIsLocal]_vars

\* C19: for every toggle(id), the completed value sent to the remote store
\* equals the value the active league's local map holds for id right after
\* the toggle's optimistic update, also when two toggles of the same id
\* follow each other or a notification for id is applied between the render
\* and the toggle.
C19_SentValueIsLocalValue ==
    [][(events' = events + 1 /\ last'.op = "toggle") => SentIsLocal]_vars

\* C20: toggle, participant-count change, reset, bulk-load completion and
\* notification handling change only the active league's slot: the other
\* league's pairCount and completion map stay as they were; toggle and reset
\* also leave the active league's pairCount as it was, and a switch of the
\* active league changes neither league's pairCount.
C20_OnlyActiveSlotChanges ==
    [][/\ (/\ activeLeague' = activeLeague
            /\ last'.op \in {"toggle", "pairCount", "stepper", "reset", "fetchDone", "realtime"})
           => \A l \in LeagueIds \ {activeLeague} : leagues'[l] = leagues[l]
       /\ (events' = events + 1 /\ last'.op \in {"toggle", "reset"})
           => leagues'[activeLeague].pairCount = leagues[activeLeague].pairCount
       /\ activeLeague' # activeLeague
           => \A l \in LeagueIds : leagues'[l].pairCount = leagues[l].pairCount
      ]_vars

\* a count change has just been made while the other league holds entries
\* and another count
C20_Witness ==
    /\ last.op \in {"pairCount", "stepper"}
    /\ \E l \in LeagueIds \ {activeLeague} :
          /\ DOMAIN leagues[l].completedMap # {}
          /\ leagues[l].pairCount # leagues[activeLeague].pairCount

=============================================================================
